---- MODULE Spec2Model ----
(***************************************************************************)
(* Inventory ledger, stock consistency and orders of the Tillie backend.   *)
(*                                                                         *)
(* The state is the content of the relational store that the views read   *)
(* and write: the Product rows, the Inventory (ledger) rows and their two *)
(* auto-increment primary-key counters, the Order and Category rows, and  *)
(* the clock.  Each HTTP handler of inventory/views.py and the admin      *)
(* action of inventory/admin.py is one action (specification Spec).       *)
(* Specification SpecConc runs two POST /inventory/ requests against one  *)
(* product step by step, because the handler performs its read and its    *)
(* two writes as separate statements outside any transaction.             *)
(* Specification SpecOrders runs the handlers of orders/views.py and the  *)
(* actions of orders/admin.py while time passes; specification SpecRead   *)
(* runs the list and detail reads over rows of two shops.                 *)
(* Specification SpecDetail sends retrieve, update and delete requests to *)
(* the detail views over rows of two shops, and specification SpecCascade *)
(* deletes accounts and shops, with the rows that the foreign keys take   *)
(* along.                                                                  *)
(*                                                                         *)
(* The views are read as they are written: request.user.shop_id is the    *)
(* shop of the account (CustomUser.shop), and a serializer accepts every   *)
(* field its Meta declares with the type of the model field, so an         *)
(* IntegerField takes any integer.                                         *)
(***************************************************************************)
EXTENDS Integers, Sequences, FiniteSets, TLC

VARIABLES products, ledger, nextProductId, nextEntryId, last, req,
          orders, categories, now, deleted

vars == <<products, ledger, nextProductId, nextEntryId, last, req,
          orders, categories, now, deleted>>

(***************************************************************************)
(* Bounds of the model.                                                    *)
(***************************************************************************)
MaxProducts == 1
MaxEntries == 2
MaxQty == 2
MaxNeg == 1
MaxStock == 2

\* Values a request can put in an integer field (IntegerField takes any sign).
Quantities == (0 - MaxNeg)..MaxQty
\* stock_quantity values the model follows.
StockRange == (0 - MaxNeg)..MaxStock

(***************************************************************************)
(* Shops and accounts.                                                     *)
(***************************************************************************)
None == "none"
Shops == {"A", "B"}
Users == {"alice", "staff", "guest"}

\* Shop.owner
Owner(s) == IF s = "A" THEN "alice" ELSE "staff"
\* CustomUser.shop, read by the views as request.user.shop_id
UserShop(u) == IF u \in {"alice", "bob"} THEN "A" ELSE None
\* AbstractUser.is_staff
IsStaff(u) == u = "staff"

\* Inventory.CHANGE_TYPES
CHANGE_TYPES == {"addition", "removal", "adjustment", "return", "transfer", "initial_stock"}

(***************************************************************************)
(* Rows.                                                                   *)
(***************************************************************************)
\* A Product row that was deleted (primary keys are never reused).
Deleted == [live |-> FALSE, shop |-> None, stock |-> 0]

ProductIds == 1..(nextProductId - 1)
Live(p) == p \in ProductIds /\ products[p].live

\* The rows of a get_queryset(): all rows for staff, the rows of the user's
\* shop for a user that has one, none otherwise.
Visible(u, shop) == IsStaff(u) \/ (UserShop(u) # None /\ shop = UserShop(u))

EntryIndex(id) == {i \in 1..Len(ledger) : ledger[i].id = id}
EntryIds == {ledger[i].id : i \in 1..Len(ledger)}
EntryById(id) == ledger[CHOOSE i \in EntryIndex(id) : TRUE]

RECURSIVE SelectSeqBy(_, _)
\* The rows of seq whose index is kept by keep, in order.
SelectSeqBy(seq, keep) ==
  IF seq = <<>> THEN <<>>
  ELSE LET n == Len(seq)
           front == SelectSeqBy(SubSeq(seq, 1, n - 1), keep)
       IN IF n \in keep THEN Append(front, seq[n]) ELSE front

\* The ledger after the rows of product p were cascade-deleted.
WithoutProduct(p) ==
  SelectSeqBy(ledger, {i \in 1..Len(ledger) : ledger[i].product_id # p})

\* The ledger after row id was deleted.
WithoutEntry(id) ==
  SelectSeqBy(ledger, {i \in 1..Len(ledger) : ledger[i].id # id})

\* An Inventory row.
EntryRow(id, shop, p, q, t, u) ==
  [id |-> id, shop_id |-> shop, product_id |-> p,
   quantity |-> q, change_type |-> t, user_id |-> u]

\* The row an INSERT makes: the primary key is the next of the sequence.
NewEntry(shop, p, q, t, u) == EntryRow(nextEntryId, shop, p, q, t, u)

Abs(n) == IF n < 0 THEN 0 - n ELSE n

\* The record of the request that ran last.
Last(op, u, status, p, t, q, stock0) ==
  [op |-> op, user |-> u, status |-> status, p |-> p, type |-> t, q |-> q,
   stock0 |-> stock0, rows0 |-> Len(ledger)]

StockOf(p) == IF Live(p) THEN products[p].stock ELSE 0

IdleReq == [pc |-> "idle", type |-> None, q |-> 0, snap |-> 0, row |-> 0]
Requests == {1, 2}

(***************************************************************************)
(* InventoryListCreateView.perform_create: the stock rule.                 *)
(***************************************************************************)
\* The test refusing a removal of exactly the stock.
InsufficientStock_OrEqual(t, q, stock) == t = "removal" /\ q > 0 /\ stock <= q

\* "Validate stock removal doesn't go negative": the request is refused.
InsufficientStock(t, q, stock) == t = "removal" /\ q > 0 /\ stock < q

\* An adjustment that adds to the stock instead of setting it.
StockAfter_AdjustAdds(t, q, stock) ==
  IF t \in {"addition", "adjustment"} THEN stock + Abs(q)
  ELSE IF t = "removal" THEN stock - Abs(q)
  ELSE stock

\* "Update product stock quantity": the value product.save() writes.
StockAfter(t, q, stock) ==
  IF t = "addition" THEN stock + Abs(q)
  ELSE IF t = "removal" THEN stock - Abs(q)
  ELSE IF t = "adjustment" THEN Abs(q)
  ELSE stock

(***************************************************************************)
(* Product.save: the ledger rows a save adds.                              *)
(***************************************************************************)
\* Product.save without the is_new test.
SaveEntries_EverySave(is_new, shop, p, stock) ==
  IF stock > 0
  THEN <<EntryRow(nextEntryId, shop, p, stock, "initial_stock", Owner(shop))>>
  ELSE <<>>

SaveEntries(is_new, shop, p, stock) ==
  IF is_new /\ stock > 0
  THEN <<NewEntry(shop, p, stock, "initial_stock", Owner(shop))>>
  ELSE <<>>

(***************************************************************************)
(* The state after construction: an empty store.                           *)
(***************************************************************************)
Init ==
  /\ products = <<>>
  /\ ledger = <<>>
  /\ nextProductId = 1
  /\ nextEntryId = 1
  /\ last = Last("none", None, 0, 0, None, 0, 0)
  /\ req = [r \in Requests |-> IdleReq]
  /\ orders = <<>>
  /\ categories = <<>>
  /\ now = 0
  /\ deleted = {}

\* A request that is refused changes nothing in the store.
Refuse(op, u, status, p, t, q) ==
  /\ last' = Last(op, u, status, p, t, q, StockOf(p))
  /\ UNCHANGED <<products, ledger, nextProductId, nextEntryId, req, orders, categories, now, deleted>>

(***************************************************************************)
(* POST /products/ : ProductListCreateView.perform_create, Product.save.   *)
(* reqShop is the shop_id of the request body (None when it is left out).  *)
(***************************************************************************)
ProductCreate(u, reqShop, stock) ==
  LET p == nextProductId
      shop == IF UserShop(u) # None THEN UserShop(u) ELSE reqShop
      rows == SaveEntries(TRUE, shop, p, stock)
  IN /\ nextProductId <= MaxProducts
     /\ IF UserShop(u) = None /\ (~IsStaff(u) \/ reqShop = None)
        THEN Refuse("ProductCreate", u, 403, 0, None, stock)
        ELSE /\ nextEntryId + Len(rows) <= MaxEntries + 1
             /\ products' = Append(products, [live |-> TRUE, shop |-> shop, stock |-> stock])
             /\ nextProductId' = nextProductId + 1
             /\ ledger' = ledger \o rows
             /\ nextEntryId' = nextEntryId + Len(rows)
             /\ last' = Last("ProductCreate", u, 201, p, None, stock, 0)
             /\ UNCHANGED <<req, orders, categories, now, deleted>>

(***************************************************************************)
(* PUT/PATCH /products/<pk>/ : ProductDetailView (UpdateModelMixin),       *)
(* ProductSerializer, Product.save.  setStock says whether the body has a  *)
(* stock_quantity; reqShop is its shop_id (None when it is left out).      *)
(***************************************************************************)
ProductUpdate(u, p, setStock, stock, reqShop) ==
  IF ~(Live(p) /\ Visible(u, products[p].shop))
  THEN Refuse("ProductUpdate", u, 404, p, None, 0)
  ELSE LET old == products[p]
           shop == IF reqShop # None THEN reqShop ELSE old.shop
           new == [live |-> TRUE, shop |-> shop,
                   stock |-> IF setStock THEN stock ELSE old.stock]
           rows == SaveEntries(FALSE, shop, p, new.stock)
       IN /\ products' = [products EXCEPT ![p] = new]
          /\ ledger' = ledger \o rows
          /\ nextEntryId' = nextEntryId + Len(rows)
          /\ last' = Last("ProductUpdate", u, 200, p, None, stock, old.stock)
          /\ UNCHANGED <<nextProductId, req, orders, categories, now, deleted>>

(***************************************************************************)
(* DELETE /products/<pk>/ : ProductDetailView.destroy.  The Inventory rows *)
(* of the product go with it (on_delete=CASCADE).                          *)
(***************************************************************************)
\* destroy without the test of instance.stock_quantity.
ProductDestroy_NoStockTest(u, p) ==
  IF ~(Live(p) /\ Visible(u, products[p].shop))
  THEN Refuse("ProductDestroy", u, 404, p, None, 0)
  ELSE /\ products' = [products EXCEPT ![p] = Deleted]
       /\ ledger' = WithoutProduct(p)
       /\ last' = Last("ProductDestroy", u, 204, p, None, 0, products[p].stock)
       /\ UNCHANGED <<nextProductId, nextEntryId, req, orders, categories, now, deleted>>

ProductDestroy(u, p) ==
  IF ~(Live(p) /\ Visible(u, products[p].shop))
  THEN Refuse("ProductDestroy", u, 404, p, None, 0)
  ELSE IF products[p].stock > 0
  THEN Refuse("ProductDestroy", u, 400, p, None, 0)
  ELSE /\ products' = [products EXCEPT ![p] = Deleted]
       /\ ledger' = WithoutProduct(p)
       /\ last' = Last("ProductDestroy", u, 204, p, None, 0, products[p].stock)
       /\ UNCHANGED <<nextProductId, nextEntryId, req, orders, categories, now, deleted>>

(***************************************************************************)
(* POST /inventory/ : InventorySerializer, then                            *)
(* InventoryListCreateView.perform_create.  s, p, q, t are the shop_id,    *)
(* product_id, quantity and change_type of the request body.               *)
(***************************************************************************)
RecordMovement(u, s, p, q, t) ==
  IF ~Live(p)
  THEN Refuse("RecordMovement", u, 400, p, None, 0)
  ELSE IF InsufficientStock(t, q, products[p].stock)
  THEN Refuse("RecordMovement", u, 400, p, t, q)
  ELSE LET stock == StockAfter(t, q, products[p].stock)
           rows == SaveEntries(FALSE, products[p].shop, p, stock)
       IN /\ stock \in StockRange
          /\ nextEntryId + Len(rows) <= MaxEntries
          /\ products' = [products EXCEPT ![p].stock = stock]
          /\ ledger' = Append(ledger \o rows, NewEntry(s, p, q, t, u))
          /\ nextEntryId' = nextEntryId + Len(rows) + 1
          /\ last' = Last("RecordMovement", u, 201, p, t, q, products[p].stock)
          /\ UNCHANGED <<nextProductId, req, orders, categories, now, deleted>>

(***************************************************************************)
(* PUT/PATCH /inventory/<pk>/ : InventoryDetailView (UpdateModelMixin).    *)
(* q and t are the quantity and change_type of the request body.           *)
(***************************************************************************)
InventoryUpdate(u, id, q, t) ==
  IF ~(id \in EntryIds /\ Visible(u, EntryById(id).shop_id))
  THEN Refuse("InventoryUpdate", u, 404, 0, None, 0)
  ELSE /\ ledger' = [i \in 1..Len(ledger) |->
                       IF ledger[i].id = id
                       THEN [ledger[i] EXCEPT !.quantity = q, !.change_type = t]
                       ELSE ledger[i]]
       /\ last' = Last("InventoryUpdate", u, 200, 0, None, 0, 0)
       /\ UNCHANGED <<products, nextProductId, nextEntryId, req, orders, categories, now, deleted>>

(***************************************************************************)
(* DELETE /inventory/<pk>/ : InventoryDetailView (DestroyModelMixin).      *)
(***************************************************************************)
InventoryDestroy(u, id) ==
  IF ~(id \in EntryIds /\ Visible(u, EntryById(id).shop_id))
  THEN Refuse("InventoryDestroy", u, 404, 0, None, 0)
  ELSE /\ ledger' = WithoutEntry(id)
       /\ last' = Last("InventoryDestroy", u, 204, 0, None, 0, 0)
       /\ UNCHANGED <<products, nextProductId, nextEntryId, req, orders, categories, now, deleted>>

(***************************************************************************)
(* Admin action InventoryAdmin.mark_as_adjustment on the selected rows.    *)
(* The admin site admits staff accounts only.                              *)
(***************************************************************************)
MarkAsAdjustment(u, ids) ==
  /\ IsStaff(u)
  /\ ids # {}
  /\ ledger' = [i \in 1..Len(ledger) |->
                  IF ledger[i].id \in ids
                  THEN [ledger[i] EXCEPT !.change_type = "adjustment"]
                  ELSE ledger[i]]
  /\ last' = Last("MarkAsAdjustment", u, 200, 0, None, 0, 0)
  /\ UNCHANGED <<products, nextProductId, nextEntryId, req, orders, categories, now, deleted>>

(***************************************************************************)
(* One request, with the acting account drawn from U, the shop of the      *)
(* request body from S, its integer from Q and its change_type from T.     *)
(***************************************************************************)
Step(U, S, Q, T) ==
  \/ \E u \in U, s \in S \cup {None}, n \in Q : ProductCreate(u, s, n)
  \/ \E u \in U, p \in 1..MaxProducts, b \in BOOLEAN, n \in Q, s \in S \cup {None} :
        ProductUpdate(u, p, b, IF b THEN n ELSE 0, s)
  \/ \E u \in U, p \in 1..MaxProducts : ProductDestroy(u, p)
  \/ \E u \in U, s \in S, p \in 1..MaxProducts, q \in Q, t \in T :
        RecordMovement(u, s, p, q, t)
  \/ \E u \in U, id \in 1..MaxEntries, q \in Q, t \in T : InventoryUpdate(u, id, q, t)
  \/ \E u \in U, id \in 1..MaxEntries : InventoryDestroy(u, id)
  \/ \E u \in U, ids \in SUBSET EntryIds : MarkAsAdjustment(u, ids)

\* Every quantity and change type, requests of the account of shop A and of staff.
Next == Step({"alice", "staff"}, {"A"}, Quantities, CHANGE_TYPES)

Spec == Init /\ [][Next]_vars

\* Every account and shop, additions and removals of one item.
NextTenant == Step(Users, Shops, 0..1, {"addition", "removal"})

SpecTenant == Init /\ [][NextTenant]_vars

(***************************************************************************)
(* Two POST /inventory/ requests on product 1, statement by statement.     *)
(* perform_create runs outside any transaction and takes no row lock: the  *)
(* serializer loads the Product instance, perform_create tests and changes *)
(* the stock of that instance and writes it with product.save(), and then  *)
(* serializer.save() inserts the Inventory row.  Each request is made by   *)
(* alice for shop A.                                                       *)
(***************************************************************************)
InitConc ==
  \E n \in 0..MaxStock :
    /\ products = <<[live |-> TRUE, shop |-> "A", stock |-> n]>>
    /\ nextProductId = 2
    /\ ledger = IF n > 0
                THEN <<EntryRow(1, "A", 1, n, "initial_stock", Owner("A"))>>
                ELSE <<>>
    /\ nextEntryId = Len(ledger) + 1
    /\ last = [Last("ProductCreate", "alice", 201, 1, None, n, 0) EXCEPT !.rows0 = 0]
    /\ req = [r \in Requests |-> IdleReq]
    /\ orders = <<>>
    /\ categories = <<>>
    /\ now = 0
    /\ deleted = {}

\* serializer.is_valid(): product_id is resolved to the Product row as it is now.
ConcValidate(r, q, t) ==
  /\ req[r].pc = "idle"
  /\ req' = [req EXCEPT ![r] = [pc |-> "validated", type |-> t, q |-> q,
                                snap |-> products[1].stock, row |-> 0]]
  /\ UNCHANGED <<products, ledger, nextProductId, nextEntryId, last, orders, categories, now, deleted>>

\* perform_create up to product.save(): the check and the new stock are
\* computed from the instance loaded at validation.
ConcSaveProduct(r) ==
  /\ req[r].pc = "validated"
  /\ IF InsufficientStock(req[r].type, req[r].q, req[r].snap)
     THEN /\ req' = [req EXCEPT ![r].pc = "refused"]
          /\ UNCHANGED products
     ELSE /\ products' = [products EXCEPT
                            ![1].stock = StockAfter(req[r].type, req[r].q, req[r].snap)]
          /\ req' = [req EXCEPT ![r].pc = "saved"]
  /\ UNCHANGED <<ledger, nextProductId, nextEntryId, last, orders, categories, now, deleted>>

\* serializer.save(user_id=self.request.user): the Inventory row is inserted.
ConcInsert(r) ==
  /\ req[r].pc = "saved"
  /\ ledger' = Append(ledger, NewEntry("A", 1, req[r].q, req[r].type, "alice"))
  /\ nextEntryId' = nextEntryId + 1
  /\ req' = [req EXCEPT ![r].pc = "done", ![r].row = nextEntryId]
  /\ UNCHANGED <<products, nextProductId, last, orders, categories, now, deleted>>

NextConc ==
  \/ \E r \in Requests, q \in Quantities, t \in CHANGE_TYPES : ConcValidate(r, q, t)
  \/ \E r \in Requests : ConcSaveProduct(r)
  \/ \E r \in Requests : ConcInsert(r)

SpecConc == InitConc /\ [][NextConc]_vars

(***************************************************************************)
(* Orders (orders/models.py, orders/serializers.py, orders/views.py,       *)
(* orders/admin.py).  The clock now and every delivery_date are counted in  *)
(* hours.  notes is a sequence of characters.                               *)
(***************************************************************************)
MaxOrders == 1
MaxNow == 36
TickHours == 12
MaxExtended == 60

\* OrderCreateSerializer.validate_delivery_date: timedelta(hours=24)
MinLeadHours == 24
\* validate_delivery_date: timedelta(days=365)
MaxLeadDays == 365
\* validate_total_items: 10000
MaxTotalItems == 10000
\* OrderAdmin.extend_delivery_date: timedelta(days=1)
ExtendDays == 1

\* timedelta(days=n) in hours.
Hours(days) == days * 24

\* The accounts that send order requests: bob is a second account of shop A.
OrderUsers == {"alice", "bob", "staff"}

\* A request body is a record of the fields it carries.
Has(d, f) == f \in DOMAIN d
\* The body of a request that has none.
NoData == <<>>
\* A shop_id that is left out of a request body.
Absent == "absent"

\* An Order row that was deleted.
DeletedOrder ==
  [live |-> FALSE, shop |-> None, user |-> None, total_items |-> 0,
   delivery_date |-> 0, notes |-> <<>>]

OrderIds == 1..Len(orders)
LiveOrder(o) == o \in OrderIds /\ orders[o].live

RECURSIVE LStrip(_)
LStrip(s) == IF s # <<>> /\ s[1] = " " THEN LStrip(Tail(s)) ELSE s
RECURSIVE RStrip(_)
RStrip(s) == IF s # <<>> /\ s[Len(s)] = " " THEN RStrip(SubSeq(s, 1, Len(s) - 1)) ELSE s
\* str.strip()
Strip(s) == RStrip(LStrip(s))
\* w in s
Contains(s, w) == \E i \in 1..(Len(s) - Len(w) + 1) : SubSeq(s, i, i + Len(w) - 1) = w

URGENT == <<"U", "R", "G", "E", "N", "T">>
\* f"URGENT: {current_notes}".strip()
UrgentNotes(notes) == Strip(URGENT \o <<":", " ">> \o notes)

\* The record of the order request that ran last; orders0 is the Order table
\* the request found.
OrderLast(op, u, status, o, d) ==
  [op |-> op, user |-> u, status |-> status, o |-> o, data |-> d, orders0 |-> orders]

\* An order request that is refused changes nothing in the store.
OrderRefuse(op, u, status, o, d) ==
  /\ last' = OrderLast(op, u, status, o, d)
  /\ UNCHANGED <<products, ledger, nextProductId, nextEntryId, req, orders, categories, now, deleted>>

\* validate_total_items of both serializers.
TotalItemsOk(n) == ~(n <= 0) /\ ~(n > MaxTotalItems)

\* validate_delivery_date refusing a date exactly 24 hours ahead.
CreateDateOk_Strict(d, t) == ~(d <= t + MinLeadHours) /\ ~(d > t + Hours(MaxLeadDays))

\* OrderCreateSerializer.validate_delivery_date at time t.
CreateDateOk(d, t) == ~(d < t + MinLeadHours) /\ ~(d > t + Hours(MaxLeadDays))

\* OrderSerializer.validate_delivery_date at time t.
UpdateDateOk(d, t) == ~(d <= t) /\ ~(d > t + Hours(MaxLeadDays))

\* OrderSerializer.validate_notes
UpdateNotesOk(notes) == ~(notes # <<>> /\ Len(Strip(notes)) < 3)

\* The lock test with a strict comparison.
Locked_Strict(d, t) == d < t

\* "Check if delivery date has passed" of perform_update and destroy.
Locked(d, t) == d <= t

\* perform_update without the shop test.
ShopChanged_Never(d, row) == FALSE

\* "Prevent changing shop after creation"
ShopChanged(d, row) == Has(d, "shop") /\ d.shop # row.shop

\* destroy without the creator test.
NotCreator_Never(u, row) == FALSE

\* "Only allow deletion by the user who created the order or staff"
NotCreator(u, row) == ~IsStaff(u) /\ row.user # u

\* perform_create saving the shop of the request body for every account.
CreateShop_AsRequested(u, d) ==
  IF Has(d, "shop") THEN d.shop
  ELSE IF ~IsStaff(u) THEN UserShop(u)
  ELSE Absent

\* The shop perform_create saves: the account's own shop for a non-staff
\* account, the shop of the request body for staff.
CreateShop(u, d) ==
  IF ~IsStaff(u) THEN UserShop(u)
  ELSE IF Has(d, "shop") THEN d.shop
  ELSE Absent

\* The body of a POST /orders/ request.
CreateData(shop, items, date, notes) ==
  LET d == [total_items |-> items, delivery_date |-> date, notes |-> notes]
  IN IF shop = Absent THEN d ELSE ("shop" :> shop) @@ d

(***************************************************************************)
(* POST /orders/ : OrderCreateSerializer, then                             *)
(* OrderListCreateView.perform_create.  A staff request without a shop      *)
(* fails at the INSERT (Order.shop is not nullable).                        *)
(***************************************************************************)
OrderCreate(u, d) ==
  /\ Len(orders) < MaxOrders
  /\ IF ~(TotalItemsOk(d.total_items) /\ CreateDateOk(d.delivery_date, now))
     THEN OrderRefuse("OrderCreate", u, 400, 0, d)
     ELSE IF ~IsStaff(u) /\ UserShop(u) = None
     THEN OrderRefuse("OrderCreate", u, 403, 0, d)
     ELSE IF CreateShop(u, d) = Absent
     THEN OrderRefuse("OrderCreate", u, 500, 0, d)
     ELSE /\ orders' = Append(orders,
                 [live |-> TRUE, shop |-> CreateShop(u, d), user |-> u,
                  total_items |-> d.total_items,
                  delivery_date |-> d.delivery_date, notes |-> Strip(d.notes)])
          /\ last' = OrderLast("OrderCreate", u, 201, Len(orders) + 1, d)
          /\ UNCHANGED <<products, ledger, nextProductId, nextEntryId, req, categories, now, deleted>>

\* serializer.is_valid() of OrderSerializer on the fields of the body.
UpdateValid(d, t) ==
  /\ Has(d, "total_items") => TotalItemsOk(d.total_items)
  /\ Has(d, "delivery_date") => UpdateDateOk(d.delivery_date, t)
  /\ Has(d, "notes") => UpdateNotesOk(d.notes)

\* serializer.save(): the row with the fields of the body written.
Updated(row, d) ==
  [live |-> TRUE,
   shop |-> IF Has(d, "shop") THEN d.shop ELSE row.shop,
   user |-> IF Has(d, "user") THEN d.user ELSE row.user,
   total_items |-> IF Has(d, "total_items") THEN d.total_items ELSE row.total_items,
   delivery_date |-> IF Has(d, "delivery_date") THEN d.delivery_date ELSE row.delivery_date,
   notes |-> IF Has(d, "notes") THEN Strip(d.notes) ELSE row.notes]

(***************************************************************************)
(* PUT/PATCH /orders/<pk>/ : OrderDetailView (UpdateModelMixin),           *)
(* OrderSerializer, perform_update.                                         *)
(***************************************************************************)
OrderUpdate(u, o, d) ==
  IF ~(LiveOrder(o) /\ Visible(u, orders[o].shop))
  THEN OrderRefuse("OrderUpdate", u, 404, o, d)
  ELSE IF ~UpdateValid(d, now)
  THEN OrderRefuse("OrderUpdate", u, 400, o, d)
  ELSE IF Locked(orders[o].delivery_date, now)
  THEN OrderRefuse("OrderUpdate", u, 400, o, d)
  ELSE IF ShopChanged(d, orders[o])
  THEN OrderRefuse("OrderUpdate", u, 400, o, d)
  ELSE /\ orders' = [orders EXCEPT ![o] = Updated(orders[o], d)]
       /\ last' = OrderLast("OrderUpdate", u, 200, o, d)
       /\ UNCHANGED <<products, ledger, nextProductId, nextEntryId, req, categories, now, deleted>>

(***************************************************************************)
(* DELETE /orders/<pk>/ : OrderDetailView.destroy.                          *)
(***************************************************************************)
\* destroy with the creator test ahead of the lock test.
OrderDestroy_CreatorFirst(u, o) ==
  IF ~(LiveOrder(o) /\ Visible(u, orders[o].shop))
  THEN OrderRefuse("OrderDestroy", u, 404, o, NoData)
  ELSE IF NotCreator(u, orders[o])
  THEN OrderRefuse("OrderDestroy", u, 403, o, NoData)
  ELSE IF Locked(orders[o].delivery_date, now)
  THEN OrderRefuse("OrderDestroy", u, 400, o, NoData)
  ELSE /\ orders' = [orders EXCEPT ![o] = DeletedOrder]
       /\ last' = OrderLast("OrderDestroy", u, 204, o, NoData)
       /\ UNCHANGED <<products, ledger, nextProductId, nextEntryId, req, categories, now, deleted>>

OrderDestroy(u, o) ==
  IF ~(LiveOrder(o) /\ Visible(u, orders[o].shop))
  THEN OrderRefuse("OrderDestroy", u, 404, o, NoData)
  ELSE IF Locked(orders[o].delivery_date, now)
  THEN OrderRefuse("OrderDestroy", u, 400, o, NoData)
  ELSE IF NotCreator(u, orders[o])
  THEN OrderRefuse("OrderDestroy", u, 403, o, NoData)
  ELSE /\ orders' = [orders EXCEPT ![o] = DeletedOrder]
       /\ last' = OrderLast("OrderDestroy", u, 204, o, NoData)
       /\ UNCHANGED <<products, ledger, nextProductId, nextEntryId, req, categories, now, deleted>>

(***************************************************************************)
(* OrderAdmin: the two custom actions and the delete of the selected rows.  *)
(* The admin site admits staff accounts only.                               *)
(***************************************************************************)
\* The custom actions taking an order due now for a future one.
AdminFuture_OrNow(d, t) == d >= t

\* "if order.delivery_date > timezone.now()" of the two custom actions.
AdminFuture(d, t) == d > t

\* has_delete_permission(request, obj) is False.
AdminDeleteDenied(d, t) == d <= t

MarkAsUrgent(u, ids) ==
  /\ IsStaff(u)
  /\ ids # {}
  /\ orders' = [o \in OrderIds |->
                  IF /\ o \in ids
                     /\ AdminFuture(orders[o].delivery_date, now)
                     /\ ~Contains(orders[o].notes, URGENT)
                  THEN [orders[o] EXCEPT !.notes = UrgentNotes(orders[o].notes)]
                  ELSE orders[o]]
  /\ last' = OrderLast("MarkAsUrgent", u, 200, 0, ids)
  /\ UNCHANGED <<products, ledger, nextProductId, nextEntryId, req, categories, now, deleted>>

ExtendDeliveryDate(u, ids) ==
  /\ IsStaff(u)
  /\ ids # {}
  /\ \A o \in ids : orders[o].delivery_date + Hours(ExtendDays) <= MaxExtended
  /\ orders' = [o \in OrderIds |->
                  IF o \in ids /\ AdminFuture(orders[o].delivery_date, now)
                  THEN [orders[o] EXCEPT !.delivery_date = @ + Hours(ExtendDays)]
                  ELSE orders[o]]
  /\ last' = OrderLast("ExtendDeliveryDate", u, 200, 0, ids)
  /\ UNCHANGED <<products, ledger, nextProductId, nextEntryId, req, categories, now, deleted>>

\* The delete of the selected rows is refused as a whole when one of them
\* may not be deleted.
AdminOrderDelete(u, ids) ==
  /\ IsStaff(u)
  /\ ids # {}
  /\ IF \E o \in ids : AdminDeleteDenied(orders[o].delivery_date, now)
     THEN OrderRefuse("AdminOrderDelete", u, 403, 0, ids)
     ELSE /\ orders' = [o \in OrderIds |-> IF o \in ids THEN DeletedOrder ELSE orders[o]]
          /\ last' = OrderLast("AdminOrderDelete", u, 204, 0, ids)
          /\ UNCHANGED <<products, ledger, nextProductId, nextEntryId, req, categories, now, deleted>>

\* Time passes.
Tick ==
  /\ now + TickHours <= MaxNow
  /\ now' = now + TickHours
  /\ last' = OrderLast("Tick", None, 0, 0, NoData)
  /\ UNCHANGED <<products, ledger, nextProductId, nextEntryId, req, orders, categories, deleted>>

\* The live rows of the Order table.
LiveOrders == {o \in OrderIds : orders[o].live}

(***************************************************************************)
(* One order request, with the acting account drawn from U, the shop of    *)
(* the body from S, total_items from N, the distance of delivery_date from  *)
(* now from D and notes from X.  An update sends one field, or the shop     *)
(* together with total_items.                                               *)
(***************************************************************************)
OrderStep(U, S, N, D, X) ==
  \/ \E u \in U, s \in S \cup {Absent}, n \in N, d \in D, x \in X :
        OrderCreate(u, CreateData(s, n, now + d, x))
  \/ \E u \in U, o \in 1..MaxOrders :
        \/ \E s \in S : OrderUpdate(u, o, [shop |-> s])
        \/ \E s \in S, n \in N : OrderUpdate(u, o, [shop |-> s, total_items |-> n])
        \/ \E a \in {None, u} : OrderUpdate(u, o, [user |-> a])
        \/ \E n \in N : OrderUpdate(u, o, [total_items |-> n])
        \/ \E d \in D : OrderUpdate(u, o, [delivery_date |-> now + d])
        \/ \E x \in X : OrderUpdate(u, o, [notes |-> x])
  \/ \E u \in U, o \in 1..MaxOrders : OrderDestroy(u, o)
  \/ \E u \in U, ids \in SUBSET LiveOrders : MarkAsUrgent(u, ids)
  \/ \E u \in U, ids \in SUBSET LiveOrders : ExtendDeliveryDate(u, ids)
  \/ \E u \in U, ids \in SUBSET LiveOrders : AdminOrderDelete(u, ids)
  \/ Tick

\* Orders at the limits of total_items and of the delivery window.
NextOrders ==
  OrderStep(OrderUsers, Shops, {0, 1, MaxTotalItems, MaxTotalItems + 1},
            {0, TickHours, MinLeadHours, Hours(MaxLeadDays), Hours(MaxLeadDays + 1)},
            {<<>>})

SpecOrders == Init /\ [][NextOrders]_vars

\* Orders of one item due in 24 hours, with empty, short, padded and long
\* enough notes.
NextNotes ==
  OrderStep({"alice", "staff"}, {"A"}, {1}, {MinLeadHours},
            {<<>>, <<" ">>, <<"a", "b">>, <<" ", "a", "b", " ">>, <<"a", "b", "c">>})

SpecNotes == Init /\ [][NextNotes]_vars

(***************************************************************************)
(* Categories and the list and detail reads (the get_queryset of each      *)
(* view).  A read answers with a status and the set of primary keys of the  *)
(* rows it returns.                                                         *)
(***************************************************************************)
MaxCategories == 1

\* LowStockProductsView: query_params.get('threshold', 10)
DefaultThreshold == 10

CategoryIds == 1..Len(categories)

(***************************************************************************)
(* POST /categories/ : CategoryListCreateView.perform_create.  reqShop is  *)
(* the shop_id of the request body (None when it is left out).              *)
(***************************************************************************)
CategoryCreate(u, reqShop) ==
  /\ Len(categories) < MaxCategories
  /\ IF UserShop(u) = None /\ (~IsStaff(u) \/ reqShop = None)
     THEN OrderRefuse("CategoryCreate", u, 403, 0, NoData)
     ELSE /\ categories' = Append(categories,
                 [live |-> TRUE,
                  shop |-> IF UserShop(u) # None THEN UserShop(u) ELSE reqShop])
          /\ last' = OrderLast("CategoryCreate", u, 201, Len(categories) + 1, NoData)
          /\ UNCHANGED <<products, ledger, nextProductId, nextEntryId, req, orders, now, deleted>>

\* get_queryset without the shop filter for an account that has a shop.
CategoryQueryset_AllShops(u) ==
  {c \in CategoryIds : categories[c].live /\ (IsStaff(u) \/ UserShop(u) # None)}

\* CategoryListCreateView.get_queryset, CategoryDetailView.get_queryset
CategoryQueryset(u) ==
  {c \in CategoryIds : categories[c].live /\ Visible(u, categories[c].shop)}

(***************************************************************************)
(* PUT/PATCH /categories/<pk>/ : CategoryDetailView (UpdateModelMixin),    *)
(* CategorySerializer.  reqShop is the shop_id of the request body (None   *)
(* when it is left out).                                                    *)
(***************************************************************************)
CategoryUpdate(u, c, reqShop) ==
  IF c \notin CategoryQueryset(u)
  THEN OrderRefuse("CategoryUpdate", u, 404, c, NoData)
  ELSE /\ categories' = [categories EXCEPT
                           ![c].shop = IF reqShop # None THEN reqShop ELSE @]
       /\ last' = OrderLast("CategoryUpdate", u, 200, c, NoData)
       /\ UNCHANGED <<products, ledger, nextProductId, nextEntryId, req, orders, now, deleted>>

DeletedCategory == [live |-> FALSE, shop |-> None]

\* destroy over every category instead of get_queryset().
CategoryDestroy_AnyShop(u, c) ==
  IF ~(c \in CategoryIds /\ categories[c].live)
  THEN OrderRefuse("CategoryDestroy", u, 404, c, NoData)
  ELSE /\ categories' = [categories EXCEPT ![c] = DeletedCategory]
       /\ last' = OrderLast("CategoryDestroy", u, 204, c, NoData)
       /\ UNCHANGED <<products, ledger, nextProductId, nextEntryId, req, orders, now, deleted>>

(***************************************************************************)
(* DELETE /categories/<pk>/ : CategoryDetailView (DestroyModelMixin).  The *)
(* products of the category keep their rows (category_id is SET_NULL).     *)
(***************************************************************************)
CategoryDestroy(u, c) ==
  IF c \notin CategoryQueryset(u)
  THEN OrderRefuse("CategoryDestroy", u, 404, c, NoData)
  ELSE /\ categories' = [categories EXCEPT ![c] = DeletedCategory]
       /\ last' = OrderLast("CategoryDestroy", u, 204, c, NoData)
       /\ UNCHANGED <<products, ledger, nextProductId, nextEntryId, req, orders, now, deleted>>

\* ProductListCreateView.get_queryset, ProductDetailView.get_queryset
ProductQueryset(u) ==
  {p \in ProductIds : products[p].live /\ Visible(u, products[p].shop)}

\* InventoryListCreateView.get_queryset, InventoryDetailView.get_queryset
InventoryQueryset(u) == {id \in EntryIds : Visible(u, EntryById(id).shop_id)}

\* OrderListCreateView.get_queryset, OrderDetailView.get_queryset
OrderQueryset(u) == {o \in LiveOrders : Visible(u, orders[o].shop)}

\* LowStockProductsView.get_queryset with a threshold that is not negative.
LowStockQueryset(u, threshold) ==
  {p \in ProductIds : /\ products[p].live
                      /\ Visible(u, products[p].shop)
                      /\ products[p].stock < threshold}

\* PastOrdersView.get_queryset
PastOrdersQueryset(u) ==
  {o \in LiveOrders : Visible(u, orders[o].shop) /\ orders[o].delivery_date < now}

\* UpcomingOrdersView.get: the orders the response is built from.
UpcomingOrdersQueryset(u) ==
  {o \in LiveOrders : Visible(u, orders[o].shop) /\ orders[o].delivery_date >= now}

\* The record of the read that ran last.
ReadLast(op, u, status, arg, rows) ==
  [op |-> op, user |-> u, status |-> status, arg |-> arg, rows |-> rows]

\* A read changes nothing in the store.
Read(op, u, status, arg, rows) ==
  /\ last' = ReadLast(op, u, status, arg, rows)
  /\ UNCHANGED <<products, ledger, nextProductId, nextEntryId, req, orders, categories, now, deleted>>

\* GET of a list view: ListModelMixin.list over get_queryset().
List(op, u, rows) == Read(op, u, 200, 0, rows)

\* GET of a detail view: get_object() over get_queryset(), 404 outside it.
Retrieve(op, u, id, rows) ==
  IF id \in rows THEN Read(op, u, 200, id, {id}) ELSE Read(op, u, 404, id, {})

\* The threshold defaulting to 0.
Threshold_DefaultZero(q) == IF Has(q, "threshold") THEN q.threshold ELSE 0

\* int(self.request.query_params.get('threshold', 10)); q is the record of
\* the query parameters.
Threshold(q) == IF Has(q, "threshold") THEN q.threshold ELSE DefaultThreshold

\* GET /products/low-stock/ : a negative threshold is refused.
LowStockList(u, q) ==
  IF Threshold(q) < 0
  THEN Read("LowStockList", u, 400, q, {})
  ELSE Read("LowStockList", u, 200, q, LowStockQueryset(u, Threshold(q)))

(***************************************************************************)
(* Rows of both shops are written by alice and by staff, and every account *)
(* reads them.                                                              *)
(***************************************************************************)
Writers == {"alice", "staff"}

NextRead ==
  \/ \E u \in Writers, s \in Shops \cup {None} : CategoryCreate(u, s)
  \/ \E u \in Writers, s \in Shops \cup {None}, n \in 0..1 : ProductCreate(u, s, n)
  \/ \E s \in Shops, p \in 1..MaxProducts : RecordMovement("alice", s, p, 1, "addition")
  \/ \E u \in Writers, s \in Shops :
        OrderCreate(u, CreateData(s, 1, now + MinLeadHours, <<>>))
  \/ Tick
  \/ \E u \in Users : List("CategoryList", u, CategoryQueryset(u))
  \/ \E u \in Users : List("ProductList", u, ProductQueryset(u))
  \/ \E u \in Users : List("InventoryList", u, InventoryQueryset(u))
  \/ \E u \in Users : List("OrderList", u, OrderQueryset(u))
  \/ \E u \in Users : List("PastOrdersList", u, PastOrdersQueryset(u))
  \/ \E u \in Users : List("UpcomingOrdersList", u, UpcomingOrdersQueryset(u))
  \/ \E u \in Users, q \in {NoData} \cup {[threshold |-> n] : n \in (0 - 1)..MaxStock} :
        LowStockList(u, q)
  \/ \E u \in Users, c \in 1..MaxCategories :
        Retrieve("CategoryRetrieve", u, c, CategoryQueryset(u))
  \/ \E u \in Users, p \in 1..MaxProducts :
        Retrieve("ProductRetrieve", u, p, ProductQueryset(u))
  \/ \E u \in Users, id \in 1..MaxEntries :
        Retrieve("InventoryRetrieve", u, id, InventoryQueryset(u))
  \/ \E u \in Users, o \in 1..MaxOrders :
        Retrieve("OrderRetrieve", u, o, OrderQueryset(u))

SpecRead == Init /\ [][NextRead]_vars

(***************************************************************************)
(* Rows of both shops are written by alice and by staff, and both send     *)
(* retrieve, update and delete requests to the four detail views.          *)
(***************************************************************************)
NextDetail ==
  \/ \E u \in Writers, s \in Shops \cup {None} : CategoryCreate(u, s)
  \/ \E u \in Writers, s \in Shops \cup {None} : ProductCreate(u, s, 0)
  \/ \E s \in Shops, p \in 1..MaxProducts : RecordMovement("staff", s, p, 1, "addition")
  \/ \E u \in Writers, s \in Shops :
        OrderCreate(u, CreateData(s, 1, now + MinLeadHours, <<>>))
  \/ \E u \in Writers, c \in 1..MaxCategories :
        \/ Retrieve("CategoryRetrieve", u, c, CategoryQueryset(u))
        \/ \E s \in Shops \cup {None} : CategoryUpdate(u, c, s)
        \/ CategoryDestroy(u, c)
  \/ \E u \in Writers, p \in 1..MaxProducts :
        \/ Retrieve("ProductRetrieve", u, p, ProductQueryset(u))
        \/ \E s \in Shops \cup {None} : ProductUpdate(u, p, FALSE, 0, s)
        \/ ProductDestroy(u, p)
  \/ \E u \in Writers, id \in 1..MaxEntries :
        \/ Retrieve("InventoryRetrieve", u, id, InventoryQueryset(u))
        \/ InventoryUpdate(u, id, 0, "removal")
        \/ InventoryDestroy(u, id)
  \/ \E u \in Writers, o \in 1..MaxOrders :
        \/ Retrieve("OrderRetrieve", u, o, OrderQueryset(u))
        \/ \E s \in Shops : OrderUpdate(u, o, [shop |-> s])
        \/ OrderUpdate(u, o, [total_items |-> 2])
        \/ OrderDestroy(u, o)

SpecDetail == Init /\ [][NextDetail]_vars

(***************************************************************************)
(* Deletion of accounts and of shops.  deleted holds the names of the      *)
(* accounts and shops whose rows are gone.  Model.delete() collects the    *)
(* rows that reference the deleted ones through an on_delete=CASCADE       *)
(* foreign key and sets the SET_NULL foreign keys of the others to null.   *)
(***************************************************************************)
Accounts == Users \cup OrderUsers

RECURSIVE Collect(_)
\* The accounts and shops deleted together with those of X: the accounts of
\* a deleted shop (CustomUser.shop) and the shops of a deleted owner
\* (Shop.owner) are both on_delete=CASCADE.
Collect(X) ==
  LET Y == X \cup {u \in Accounts : UserShop(u) \in X} \cup {s \in Shops : Owner(s) \in X}
  IN IF Y = X THEN X ELSE Collect(Y)

\* Product.shop_id is on_delete=CASCADE.
CascadeProducts(X) ==
  [p \in 1..Len(products) |->
     IF products[p].live /\ products[p].shop \in X THEN Deleted ELSE products[p]]

\* Inventory.shop_id and Inventory.product_id are on_delete=CASCADE,
\* Inventory.user_id is on_delete=SET_NULL.
CascadeLedger(X) ==
  LET kept == SelectSeqBy(ledger,
                {i \in 1..Len(ledger) : /\ ledger[i].shop_id \notin X
                                        /\ products[ledger[i].product_id].shop \notin X})
  IN [i \in 1..Len(kept) |->
        IF kept[i].user_id \in X THEN [kept[i] EXCEPT !.user_id = None] ELSE kept[i]]

\* Category.shop_id is on_delete=CASCADE.
CascadeCategories(X) ==
  [c \in 1..Len(categories) |->
     IF categories[c].live /\ categories[c].shop \in X
     THEN DeletedCategory ELSE categories[c]]

\* Order.shop is on_delete=CASCADE, Order.user is on_delete=SET_NULL.
CascadeOrders(X) ==
  [o \in 1..Len(orders) |->
     IF orders[o].live /\ orders[o].shop \in X THEN DeletedOrder
     ELSE IF orders[o].live /\ orders[o].user \in X
     THEN [orders[o] EXCEPT !.user = None]
     ELSE orders[o]]

\* instance.delete() of the accounts and shops of X.
Delete(X) ==
  /\ products' = CascadeProducts(X)
  /\ ledger' = CascadeLedger(X)
  /\ categories' = CascadeCategories(X)
  /\ orders' = CascadeOrders(X)
  /\ deleted' = deleted \cup X
  /\ UNCHANGED <<nextProductId, nextEntryId, req, now>>

(***************************************************************************)
(* DELETE /user/delete/ and /user/delete/<pk>/ : UserDeleteView.  pk is    *)
(* None on the route without a primary key.  A staff account deletes the   *)
(* account of pk, every other account deletes itself.                      *)
(***************************************************************************)
UserDelete(u, pk) ==
  IF IsStaff(u) /\ pk = None
  THEN OrderRefuse("UserDelete", u, 500, 0, [pk |-> pk])
  ELSE IF IsStaff(u) /\ pk \in deleted
  THEN OrderRefuse("UserDelete", u, 404, 0, [pk |-> pk])
  ELSE LET instance == IF IsStaff(u) THEN pk ELSE u
       IN /\ Delete(Collect({instance}))
          /\ last' = OrderLast("UserDelete", u, 200, 0, [pk |-> instance])

(***************************************************************************)
(* Delete of shop s on the admin site (ShopAdmin).  The site refuses the   *)
(* delete when the account lacks the delete permission on one of the rows  *)
(* that would go with it: OrderAdmin.has_delete_permission.                *)
(***************************************************************************)
AdminShopDelete(u, s) ==
  /\ IsStaff(u)
  /\ s \notin deleted
  /\ IF \E o \in LiveOrders : /\ orders[o].shop \in Collect({s})
                               /\ AdminDeleteDenied(orders[o].delivery_date, now)
     THEN OrderRefuse("AdminShopDelete", u, 403, 0, [pk |-> s])
     ELSE /\ Delete(Collect({s}))
          /\ last' = OrderLast("AdminShopDelete", u, 204, 0, [pk |-> s])

(***************************************************************************)
(* The accounts that still exist write rows into the shops that still      *)
(* exist (bob, who owns no shop, records the movements), time passes, and  *)
(* accounts and shops are deleted.                                          *)
(***************************************************************************)
NextCascade ==
  \/ \E u \in Writers \ deleted, s \in (Shops \ deleted) \cup {None} : CategoryCreate(u, s)
  \/ \E u \in Writers \ deleted, s \in (Shops \ deleted) \cup {None} : ProductCreate(u, s, 0)
  \/ \E u \in {"bob"} \ deleted, s \in Shops \ deleted, p \in 1..MaxProducts :
        RecordMovement(u, s, p, 0, "addition")
  \/ \E u \in OrderUsers \ deleted, s \in Shops \ deleted :
        OrderCreate(u, CreateData(s, 1, now + MinLeadHours, <<>>))
  \/ Tick
  \/ \E u \in OrderUsers \ deleted, pk \in OrderUsers \cup {None} : UserDelete(u, pk)
  \/ \E u \in OrderUsers \ deleted, s \in Shops : AdminShopDelete(u, s)

SpecCascade == Init /\ [][NextCascade]_vars

(***************************************************************************)
(* Properties.                                                             *)
(***************************************************************************)
\* The balance after one ledger row under the documented sign convention.
SignedApply(balance, e) ==
  IF e.change_type \in {"addition", "return", "initial_stock"} THEN balance + e.quantity
  ELSE IF e.change_type \in {"removal", "transfer"} THEN balance - e.quantity
  ELSE e.quantity

RECURSIVE ReplayTo(_, _)
\* The balance of product p after the first n rows of the ledger, from 0.
ReplayTo(p, n) ==
  IF n = 0 THEN 0
  ELSE IF ledger[n].product_id = p THEN SignedApply(ReplayTo(p, n - 1), ledger[n])
  ELSE ReplayTo(p, n - 1)

Replay(p) == ReplayTo(p, Len(ledger))

\* The rows of the ledger that reference product p.
RowsOf(p) == {i \in 1..Len(ledger) : ledger[i].product_id = p}

\* The last request was a POST /inventory/ that reached perform_create.
Recorded == last.op = "RecordMovement" /\ last.type # None

\* C1: for every product, stock_quantity equals the replay of its ledger rows
\* in creation order from 0 under the sign convention.
C1_StockEqualsReplay ==
  \A p \in ProductIds : products[p].live => products[p].stock = Replay(p)

\* C2: a recorded movement on a product whose stock was not negative never
\* leaves its stock_quantity below 0.
C2_MovementKeepsStockNonNegative ==
  (Recorded /\ last.stock0 >= 0) => StockOf(last.p) >= 0

\* C3: the stock_quantity of a product changes only in a step that records a
\* ledger row for that product; every other request leaves it unchanged.
C3_StockChangesOnlyWithEntry ==
  [][\A p \in ProductIds :
       (products[p].live /\ products'[p].live /\ products'[p].stock # products[p].stock)
         => \E i \in 1..Len(ledger') :
              /\ ledger'[i].product_id = p
              /\ ledger'[i].id \notin EntryIds]_vars

\* C4: the ledger is append-only: every row of the ledger is still there,
\* with the same fields, after every step.
C4_LedgerAppendOnly ==
  [][\A i \in 1..Len(ledger) : \E j \in 1..Len(ledger') : ledger'[j] = ledger[i]]_vars

\* The stock the sign convention gives after a movement of type t and
\* quantity q on stock s.
ClaimedStock(t, q, s) ==
  IF t \in {"addition", "return", "initial_stock"} THEN s + q
  ELSE IF t \in {"removal", "transfer"} THEN s - q
  ELSE q

\* C5: a successful movement of quantity q >= 0 on stock s >= 0 leaves the
\* stock at s+q for addition, return and initial_stock, at s-q for removal and
\* transfer, and at q for adjustment.
C5_SignConvention ==
  (Recorded /\ last.status = 201 /\ last.q >= 0 /\ last.stock0 >= 0)
    => StockOf(last.p) = ClaimedStock(last.type, last.q, last.stock0)

\* C6: a removal or transfer of more than the current stock s >= 0 is refused
\* with 400, writes no ledger row and leaves the stock unchanged.
C6_InsufficientStockRefused ==
  (/\ Recorded
   /\ last.type \in {"removal", "transfer"}
   /\ last.stock0 >= 0
   /\ last.q > last.stock0)
    => /\ last.status = 400
       /\ Len(ledger) = last.rows0
       /\ StockOf(last.p) = last.stock0

\* The stock write of request r has been made.
StockWritten(r) == req[r].pc \in {"saved", "done"}
\* The ledger row of request r is in the ledger.
RowWritten(r) == req[r].row \in EntryIds

\* C7: in every state the ledger row of a movement exists if and only if
\* its stock update has been applied.
C7_RowIffStockUpdate ==
  \A r \in Requests : StockWritten(r) <=> RowWritten(r)

\* The result of running request a and then request b, one after the other,
\* on stock s: the final stock and which of the two were accepted.
SerialOutcome(s, a, b) ==
  LET okA == ~InsufficientStock(a.type, a.q, s)
      sA == IF okA THEN StockAfter(a.type, a.q, s) ELSE s
      okB == ~InsufficientStock(b.type, b.q, sA)
      sB == IF okB THEN StockAfter(b.type, b.q, sA) ELSE sA
  IN [stock |-> sB, first |-> okA, second |-> okB]

Finished(r) == req[r].pc \in {"done", "refused"}

\* C8: when two concurrent movements of non-negative quantity on one product
\* have both finished, the final stock and the acceptance of each equal those
\* of one of the two serial orders.
C8_Serializable ==
  (Finished(1) /\ Finished(2) /\ req[1].q >= 0 /\ req[2].q >= 0) =>
    LET got12 == [stock |-> products[1].stock,
                  first |-> req[1].pc = "done", second |-> req[2].pc = "done"]
        got21 == [stock |-> products[1].stock,
                  first |-> req[2].pc = "done", second |-> req[1].pc = "done"]
    IN \/ got12 = SerialOutcome(last.q, req[1], req[2])
       \/ got21 = SerialOutcome(last.q, req[2], req[1])

\* C9: a movement by a non-staff account of one shop on a product of another
\* shop is refused as forbidden, writes no row and leaves the stock unchanged.
C9_CrossTenantForbidden ==
  (/\ Recorded
   /\ ~IsStaff(last.user)
   /\ UserShop(last.user) # None
   /\ Live(last.p)
   /\ products[last.p].shop # UserShop(last.user))
    => /\ last.status = 403
       /\ Len(ledger) = last.rows0
       /\ StockOf(last.p) = last.stock0

\* C10: creating a product with stock n > 0 leaves exactly one ledger row for
\* it (initial_stock, quantity n, user the owner of its shop), creating one
\* with stock 0 or less leaves none, and saving an existing product (a product
\* update, the save of a recorded movement) adds no row of its own.
C10_InitialStockRow ==
  /\ (last.op = "ProductCreate" /\ last.status = 201) =>
       IF last.q > 0
       THEN /\ Cardinality(RowsOf(last.p)) = 1
            /\ \A i \in RowsOf(last.p) :
                 /\ ledger[i].change_type = "initial_stock"
                 /\ ledger[i].quantity = last.q
                 /\ ledger[i].user_id = Owner(products[last.p].shop)
            /\ Len(ledger) = last.rows0 + 1
       ELSE RowsOf(last.p) = {} /\ Len(ledger) = last.rows0
  /\ (last.op = "ProductUpdate" /\ last.status = 200) => Len(ledger) = last.rows0
  /\ (last.op = "RecordMovement" /\ last.status = 201) => Len(ledger) = last.rows0 + 1

\* A product was created with positive stock by an account that is not the
\* owner of its shop, and its initial_stock row is in the ledger.
C10_Witness ==
  /\ last.op = "ProductCreate" /\ last.status = 201 /\ last.q > 0
  /\ last.user # Owner(products[last.p].shop)
  /\ RowsOf(last.p) # {}

\* C11: deleting a product whose stock_quantity is above 0 is refused with 400
\* and leaves the product, its stock and the ledger rows in place; a product is
\* deleted only when its stock_quantity is 0 or less.
C11_DeleteRefusedWhileStocked ==
  last.op = "ProductDestroy" =>
    /\ (last.status # 404 /\ last.stock0 > 0) =>
         /\ last.status = 400
         /\ Live(last.p)
         /\ products[last.p].stock = last.stock0
         /\ Len(ledger) = last.rows0
    /\ last.status = 204 => (last.stock0 <= 0 /\ ~Live(last.p))

\* The delete of a stocked product that has ledger rows was refused.
C11_Witness ==
  /\ last.op = "ProductDestroy" /\ last.status = 400 /\ last.stock0 > 0
  /\ RowsOf(last.p) # {}

\* C12: a movement with a negative quantity, of any change type, on a product
\* whose stock is not negative is refused with 400, writes no ledger row and
\* leaves the stock unchanged.
C12_NegativeQuantityRejected ==
  (Recorded /\ last.q < 0 /\ last.stock0 >= 0)
    => /\ last.status = 400
       /\ Len(ledger) = last.rows0
       /\ StockOf(last.p) = last.stock0

\* The order the last request addressed was in the table the request found.
Addressed == last.o \in 1..Len(last.orders0) /\ last.orders0[last.o].live

\* C13: an update or a delete of an order whose delivery_date is at or before
\* the current time is rejected for every account, staff included (400, or
\* 404 for an account that cannot see the order), and leaves the order table
\* as it was.
C13_LockedOrderRejected ==
  (/\ last.op \in {"OrderUpdate", "OrderDestroy"}
   /\ Addressed
   /\ last.orders0[last.o].delivery_date <= now)
    => /\ last.status =
            IF IsStaff(last.user) \/ UserShop(last.user) = last.orders0[last.o].shop
            THEN 400 ELSE 404
       /\ orders = last.orders0

\* Staff sent a valid update to an order whose delivery_date is exactly now
\* and that had accepted an update before (its creator was set to null).
C13_Witness ==
  /\ last.op = "OrderUpdate" /\ last.status = 400 /\ IsStaff(last.user)
  /\ Addressed
  /\ orders[last.o].delivery_date = now
  /\ orders[last.o].user = None
  /\ Has(last.data, "total_items") /\ last.data.total_items = 1

C15_TenantNeverChangesByUpdate ==
  (last.op = "OrderUpdate" /\ Addressed) =>
    /\ LiveOrder(last.o)
    /\ orders[last.o].shop = last.orders0[last.o].shop
    /\ (Has(last.data, "shop") /\ last.data.shop # last.orders0[last.o].shop)
         => (last.status \in {400, 404} /\ orders = last.orders0)

\* An account that sees an unlocked order sent an update with another shop
\* and an acceptable total_items, and it was refused.
C15_Witness ==
  /\ last.op = "OrderUpdate" /\ last.status = 400 /\ Addressed
  /\ orders[last.o].delivery_date > now
  /\ Has(last.data, "shop") /\ last.data.shop # orders[last.o].shop
  /\ Has(last.data, "total_items") /\ last.data.total_items = 1

C17_CreateForcesOwnTenant ==
  (last.op = "OrderCreate" /\ last.status = 201 /\ ~IsStaff(last.user))
    => /\ LiveOrder(last.o)
       /\ orders[last.o].shop = UserShop(last.user)
       /\ orders[last.o].user = last.user

\* A non-staff account created an order with a request that named another shop.
C17_Witness ==
  /\ last.op = "OrderCreate" /\ last.status = 201 /\ ~IsStaff(last.user)
  /\ Has(last.data, "shop") /\ last.data.shop # UserShop(last.user)

\* C18: an otherwise valid create by a non-staff account that names a shop
\* other than its own is refused with 403 and creates no order.
C18_CreateForOtherTenantForbidden ==
  (/\ last.op = "OrderCreate"
   /\ ~IsStaff(last.user)
   /\ Has(last.data, "shop") /\ last.data.shop # UserShop(last.user)
   /\ last.data.total_items \in 1..MaxTotalItems
   /\ last.data.delivery_date >= now + MinLeadHours
   /\ last.data.delivery_date <= now + Hours(MaxLeadDays))
    => last.status = 403 /\ orders = last.orders0

\* C19: a create by an account that may create (a non-staff account of a
\* shop, or staff naming a shop) is accepted exactly when total_items is in
\* [1, 10000] and delivery_date is at least 24 hours and at most 365 days
\* after the current time; otherwise it is refused with 400 and no order is
\* created.
C19_CreateBounds ==
  (/\ last.op = "OrderCreate"
   /\ IF IsStaff(last.user) THEN Has(last.data, "shop") ELSE UserShop(last.user) # None)
    => IF /\ last.data.total_items \in 1..MaxTotalItems
          /\ last.data.delivery_date >= now + MinLeadHours
          /\ last.data.delivery_date <= now + Hours(MaxLeadDays)
       THEN /\ last.status = 201
            /\ LiveOrder(last.o)
            /\ orders[last.o].total_items = last.data.total_items
            /\ orders[last.o].delivery_date = last.data.delivery_date
       ELSE last.status = 400 /\ orders = last.orders0

\* An order of 10000 items due exactly 24 hours ahead was accepted.
C19_Witness ==
  /\ last.op = "OrderCreate" /\ last.status = 201
  /\ last.data.total_items = MaxTotalItems
  /\ last.data.delivery_date = now + MinLeadHours

\* The rows of all that account u may read, when shop(r) is the shop of row r:
\* all of them for staff, those of its own shop for a non-staff account that
\* has one, none for a non-staff account without a shop.
Scoped(u, all, shop(_)) ==
  IF IsStaff(u) THEN all
  ELSE IF UserShop(u) = None THEN {}
  ELSE {r \in all : shop(r) = UserShop(u)}

CategoryShop(c) == categories[c].shop
ProductShop(p) == products[p].shop
EntryShop(id) == EntryById(id).shop_id
OrderShop(o) == orders[o].shop

\* The threshold the last low-stock read asked for.
AskedThreshold ==
  IF "threshold" \in DOMAIN last.arg THEN last.arg.threshold ELSE DefaultThreshold

C21_NoTenantWriteForbidden ==
  (/\ last.op \in {"ProductCreate", "CategoryCreate", "OrderCreate", "RecordMovement"}
   /\ ~IsStaff(last.user)
   /\ UserShop(last.user) = None)
    => /\ last.op = "ProductCreate" => (last.status = 403 /\ Len(ledger) = last.rows0)
       /\ last.op = "CategoryCreate" => last.status = 403
       /\ (/\ last.op = "OrderCreate"
           /\ last.data.total_items \in 1..MaxTotalItems
           /\ last.data.delivery_date >= now + MinLeadHours
           /\ last.data.delivery_date <= now + Hours(MaxLeadDays))
            => (last.status = 403 /\ orders = last.orders0)
       /\ (/\ Recorded
           /\ last.q >= 0
           /\ ~(last.type = "removal" /\ last.q > last.stock0))
            => /\ last.status = 403
               /\ Len(ledger) = last.rows0
               /\ StockOf(last.p) = last.stock0

\* C22: the low-stock listing answers 200 with exactly the products in the
\* scope of the account whose stock_quantity is strictly below the threshold,
\* which is the query parameter, or 10 when there is none; a negative
\* threshold is answered with 400 and no list.
C22_LowStockListing ==
  last.op = "LowStockList" =>
    IF AskedThreshold < 0
    THEN last.status = 400 /\ last.rows = {}
    ELSE /\ last.status = 200
         /\ last.rows =
              {p \in ProductIds :
                 /\ products[p].live
                 /\ products[p].stock < AskedThreshold
                 /\ \/ IsStaff(last.user)
                    \/ (UserShop(last.user) # None
                        /\ products[p].shop = UserShop(last.user))}

\* The account of shop A asked without a threshold and got a product whose
\* stock is above 0.
C22_Witness ==
  /\ last.op = "LowStockList" /\ last.status = 200 /\ last.user = "alice"
  /\ ~Has(last.arg, "threshold")
  /\ \E p \in last.rows : products[p].stock > 0

\* C29: at every instant the past-orders listing returns exactly the orders in
\* the scope of the account that are locked (delivery_date at or before the
\* current time), and the upcoming-orders listing exactly those in scope that
\* are not locked.
C29_ListingsAgreeWithLock ==
  /\ last.op = "PastOrdersList" =>
       last.rows = Scoped(last.user,
                          {o \in LiveOrders : orders[o].delivery_date <= now},
                          OrderShop)
  /\ last.op = "UpcomingOrdersList" =>
       last.rows = Scoped(last.user,
                          {o \in LiveOrders : ~(orders[o].delivery_date <= now)},
                          OrderShop)

\* C30: a delete by a non-staff account of the order's shop that did not
\* create the order is answered 400 (locked) when delivery_date is at or
\* before the current time and 403 only when the order is unlocked; in both
\* cases the order stays.
C30_LockCheckedBeforeCreator ==
  (/\ last.op = "OrderDestroy"
   /\ Addressed
   /\ ~IsStaff(last.user)
   /\ UserShop(last.user) = last.orders0[last.o].shop
   /\ last.orders0[last.o].user # last.user)
    => /\ last.status = IF last.orders0[last.o].delivery_date <= now THEN 400 ELSE 403
       /\ orders = last.orders0

\* An account of the order's shop that did not create it tried to delete it
\* after its delivery_date had passed.
C30_Witness ==
  /\ last.op = "OrderDestroy" /\ last.status = 400 /\ Addressed
  /\ ~IsStaff(last.user)
  /\ UserShop(last.user) = orders[last.o].shop
  /\ orders[last.o].user \notin {None, last.user}
  /\ orders[last.o].delivery_date < now

\* C24: on a product with stock s >= 0, a removal of quantity s is accepted
\* and leaves the stock at exactly 0 with one new ledger row, and a removal of
\* quantity s+1 is refused with 400, leaving the stock at s and no new row.
C24_RemovalAtTheStock ==
  (Recorded /\ last.type = "removal" /\ last.stock0 >= 0) =>
    /\ last.q = last.stock0 =>
         /\ last.status = 201
         /\ StockOf(last.p) = 0
         /\ Len(ledger) = last.rows0 + 1
    /\ last.q = last.stock0 + 1 =>
         /\ last.status = 400
         /\ StockOf(last.p) = last.stock0
         /\ Len(ledger) = last.rows0

\* A removal took the whole positive stock of a product.
C24_Witness ==
  /\ Recorded /\ last.type = "removal" /\ last.status = 201
  /\ last.stock0 > 0 /\ last.q = last.stock0
  /\ StockOf(last.p) = 0

\* C25: an adjustment to a value V >= 0 is accepted, leaves the stock at V and
\* appends one ledger row, whatever the stock was before - in particular when
\* the stock is already V after an earlier adjustment to V.
C25_AdjustmentTwice ==
  (Recorded /\ last.type = "adjustment" /\ last.q >= 0) =>
    /\ last.status = 201
    /\ StockOf(last.p) = last.q
    /\ Len(ledger) = last.rows0 + 1

\* The same adjustment to V > 0 was recorded twice in a row on one product:
\* the last two ledger rows are adjustments to V and the stock was V already.
C25_Witness ==
  /\ Recorded /\ last.type = "adjustment" /\ last.status = 201
  /\ last.q > 0 /\ last.stock0 = last.q
  /\ Len(ledger) >= 2
  /\ \A i \in {Len(ledger) - 1, Len(ledger)} :
       /\ ledger[i].change_type = "adjustment"
       /\ ledger[i].quantity = last.q
       /\ ledger[i].product_id = last.p

\* C28: in every state the shop of each ledger row equals the shop of the
\* product the row references.
C28_EntryTenantIsProductTenant ==
  \A i \in 1..Len(ledger) :
    Live(ledger[i].product_id) => ledger[i].shop_id = products[ledger[i].product_id].shop

\* C26: a create by an account that may create, with acceptable total_items
\* and delivery_date, is refused with 400 and creates no order when its notes,
\* trimmed of whitespace, are non-empty and shorter than 3 characters, and is
\* accepted otherwise (empty notes included).
C26_CreateRejectsShortNotes ==
  (/\ last.op = "OrderCreate"
   /\ IF IsStaff(last.user) THEN Has(last.data, "shop") ELSE UserShop(last.user) # None
   /\ last.data.total_items \in 1..MaxTotalItems
   /\ last.data.delivery_date >= now + MinLeadHours
   /\ last.data.delivery_date <= now + Hours(MaxLeadDays))
    => IF Strip(last.data.notes) # <<>> /\ Len(Strip(last.data.notes)) < 3
       THEN last.status = 400 /\ orders = last.orders0
       ELSE last.status = 201

\* The accounts that are not staff and are assigned to a shop.
ShopUsers == {u \in Users : ~IsStaff(u) /\ UserShop(u) # None}

\* C27: a retrieve, update or delete sent by a non-staff account of a shop
\* to the detail view of a category, product, inventory row or order that
\* belongs to another shop is answered 404 and leaves that row as it was.
C27_DetailReachesOwnTenantOnly ==
  [][\A u \in ShopUsers :
       /\ \A c \in 1..MaxCategories :
            (/\ c \in CategoryIds /\ categories[c].live
             /\ categories[c].shop # UserShop(u)
             /\ last'.user = u
             /\ last'.op \in {"CategoryRetrieve", "CategoryUpdate", "CategoryDestroy"}
             /\ \/ Retrieve("CategoryRetrieve", u, c, CategoryQueryset(u))
                \/ \E s \in Shops \cup {None} : CategoryUpdate(u, c, s)
                \/ CategoryDestroy(u, c))
              => last'.status = 404 /\ categories'[c] = categories[c]
       /\ \A p \in 1..MaxProducts :
            (/\ Live(p)
             /\ products[p].shop # UserShop(u)
             /\ last'.user = u
             /\ last'.op \in {"ProductRetrieve", "ProductUpdate", "ProductDestroy"}
             /\ \/ Retrieve("ProductRetrieve", u, p, ProductQueryset(u))
                \/ \E b \in BOOLEAN, n \in Quantities, s \in Shops \cup {None} :
                      ProductUpdate(u, p, b, n, s)
                \/ ProductDestroy(u, p))
              => last'.status = 404 /\ products'[p] = products[p]
       /\ \A id \in 1..MaxEntries :
            (/\ id \in EntryIds
             /\ EntryById(id).shop_id # UserShop(u)
             /\ last'.user = u
             /\ last'.op \in {"InventoryRetrieve", "InventoryUpdate", "InventoryDestroy"}
             /\ \/ Retrieve("InventoryRetrieve", u, id, InventoryQueryset(u))
                \/ \E q \in Quantities, t \in CHANGE_TYPES : InventoryUpdate(u, id, q, t)
                \/ InventoryDestroy(u, id))
              => /\ last'.status = 404
                 /\ \E i \in 1..Len(ledger') : ledger'[i] = EntryById(id)
       /\ \A o \in 1..MaxOrders :
            (/\ LiveOrder(o)
             /\ orders[o].shop # UserShop(u)
             /\ last'.user = u
             /\ last'.op \in {"OrderRetrieve", "OrderUpdate", "OrderDestroy"}
             /\ \/ Retrieve("OrderRetrieve", u, o, OrderQueryset(u))
                \/ \E s \in Shops : OrderUpdate(u, o, [shop |-> s])
                \/ OrderUpdate(u, o, [total_items |-> 2])
                \/ OrderDestroy(u, o))
              => last'.status = 404 /\ orders'[o] = orders[o]
    ]_vars

\* alice, of shop A, has asked to delete a category of shop B, was answered
\* 404, and the category is still there.
C27_Witness ==
  /\ last.op = "CategoryDestroy"
  /\ last.user = "alice"
  /\ last.status = 404
  /\ last.o \in CategoryIds
  /\ categories[last.o].live
  /\ categories[last.o].shop = "B"

\* The shops and the accounts that a step deletes.
ShopsDeleted == (deleted' \ deleted) \cap Shops
AccountsDeleted == (deleted' \ deleted) \cap Accounts

\* C23: a delete of an account or of a shop removes exactly the categories,
\* products, inventory rows and orders of the shops that go with it, the
\* rows of every other shop staying; when no shop goes with it, no order and
\* no inventory row is removed and the rows that the deleted account created
\* have a null user afterwards.
C23_CascadeStaysInTenant ==
  [][(last'.op \in {"UserDelete", "AdminShopDelete"} /\ deleted' # deleted) =>
       /\ \A c \in CategoryIds :
            categories[c].live =>
              (categories'[c].live <=> categories[c].shop \notin ShopsDeleted)
       /\ \A p \in ProductIds :
            products[p].live =>
              (products'[p].live <=> products[p].shop \notin ShopsDeleted)
       /\ \A o \in LiveOrders :
            orders'[o].live <=> orders[o].shop \notin ShopsDeleted
       /\ \A i \in 1..Len(ledger) :
            (\E j \in 1..Len(ledger') : ledger'[j].id = ledger[i].id)
              <=> ledger[i].shop_id \notin ShopsDeleted
       /\ ShopsDeleted = {} =>
            /\ \A o \in LiveOrders :
                 orders[o].user \in AccountsDeleted => orders'[o].user = None
            /\ \A i \in 1..Len(ledger) :
                 ledger[i].user_id \in AccountsDeleted => ledger'[i].user_id = None
    ]_vars

====
